---- MODULE Spec2Model ----
(***************************************************************************)
(* Model of scrape_patches.py: the Liquipedia patch-timeline scraper.      *)
(*                                                                         *)
(* Text is a sequence of one-character strings.  A document is the tree    *)
(* BeautifulSoup builds, kept as a pre-order list of nodes with parent     *)
(* pointers.  A calendar date is a triple <<year, month, day>>.            *)
(***************************************************************************)
EXTENDS Integers, Sequences, FiniteSets, TLC

VARIABLES
    pc,          \* position of the running function
    entry,       \* the function that was called: "main", "write_csv" or a helper
    text,        \* argument of the helper being applied (_clean_text, _extract_version)
    result,      \* value the helper returned
    calls,       \* number of times the helper has been applied
    page,        \* the document the wiki serves, as the tree its HTML denotes
    dateutil,    \* what dateutil's parser does with the texts the tests do not fix
    html,        \* main: the fetched HTML (None before the fetch)
    soup,        \* main: the parsed document (None before the parse)
    tables,      \* extract_all_rows: the result of soup.find_all("table", class_=...)
    ti,          \* extract_all_rows: index of the table being extracted
    all_rows,    \* extract_all_rows: all_rows
    trs,         \* extract_rows_from_table: the result of table.find_all("tr")
    ri,          \* extract_rows_from_table: index of the row being looked at
    table_rows,  \* extract_rows_from_table: rows
    rows,        \* main / write_csv: rows
    sorted_rows, \* write_csv: sorted_rows
    wi,          \* write_csv: index of the row being written
    file,        \* the rows written to the output file (None while it does not exist)
    opens,       \* number of times the output file was opened for writing
    dirs,        \* whether os.makedirs was called
    printed,     \* whether main printed its summary line
    error,       \* the exception that ended the run ("" for none)
    rowLog,      \* history: every <tr> looked at, with the Record it produced
    parserCalls  \* history: every text handed to dateutil's parser

helperVars == <<text, result, calls>>

envVars == <<entry, page, dateutil>>

tableVars == <<tables, ti, all_rows>>

rowVars == <<trs, ri, table_rows, rowLog, parserCalls>>

writeVars == <<sorted_rows, wi, file, opens>>

mainVars == <<html, soup, rows, dirs, printed, error>>

vars ==
    <<pc, entry, text, result, calls, page, dateutil, html, soup, tables, ti,
      all_rows, trs, ri, table_rows, rows, sorted_rows, wi, file, opens, dirs,
      printed, error, rowLog, parserCalls>>

\* Python's None, kept comparable with texts and dates (both are tuples)
None == <<"None">>

\* ------------------------------------------------------------------ bounds
MaxTextLen == 4
MaxGroups == 5
MaxRows == 2
MaxTables == 2
MaxRecords == 3

\* ------------------------------------------------------------------ text
\* The characters re's \s and str.strip() treat as whitespace (those used here).
Whitespace == {" ", "\t", "\n", "\r"}

IsSpace(c) == c \in Whitespace

Drop(t, n) == SubSeq(t, n + 1, Len(t))

Take(t, n) == SubSeq(t, 1, n)

\* str.lstrip() / str.rstrip() / str.strip() with no argument
RECURSIVE lstrip(_)
lstrip(t) ==
    IF t # <<>> /\ IsSpace(Head(t)) THEN lstrip(Tail(t)) ELSE t

RECURSIVE rstrip(_)
rstrip(t) ==
    IF t # <<>> /\ IsSpace(t[Len(t)]) THEN rstrip(Take(t, Len(t) - 1)) ELSE t

strip(t) == lstrip(rstrip(t))

\* The same with \s for \s+: each whitespace character becomes a space.
re_sub_ws_each(t) == [i \in 1..Len(t) |-> IF IsSpace(t[i]) THEN " " ELSE t[i]]

\* re.sub(r"\s+", " ", t): every maximal run of whitespace, scanning left to
\* right, is replaced by one space.
RECURSIVE re_sub_ws(_)
re_sub_ws(t) ==
    IF t = <<>> THEN <<>>
    ELSE IF IsSpace(Head(t)) THEN <<" ">> \o re_sub_ws(lstrip(Tail(t)))
    ELSE <<Head(t)>> \o re_sub_ws(Tail(t))

_clean_text(t) == strip(re_sub_ws(t))

\* ------------------------------------------------------------------ version
Digit == {"0", "1", "2", "3", "4", "5", "6", "7", "8", "9"}

UpperLetters ==
    <<"A", "B", "C", "D", "E", "F", "G", "H", "I", "J", "K", "L", "M",
      "N", "O", "P", "Q", "R", "S", "T", "U", "V", "W", "X", "Y", "Z">>

LowerLetters ==
    <<"a", "b", "c", "d", "e", "f", "g", "h", "i", "j", "k", "l", "m",
      "n", "o", "p", "q", "r", "s", "t", "u", "v", "w", "x", "y", "z">>

\* str.lower() on one character
Lower(c) ==
    IF \E i \in 1..26 : UpperLetters[i] = c
    THEN LowerLetters[CHOOSE i \in 1..26 : UpperLetters[i] = c]
    ELSE c

lower(t) == [i \in 1..Len(t) |-> Lower(t[i])]

startswith(t, p) == Len(t) >= Len(p) /\ Take(t, Len(p)) = p

\* Positions are indexes of the next character to read.
\* \d+ : from a position in P, one or more digits.
DigitsFrom(t, P) ==
    {j \in 2..(Len(t) + 1) :
        \E i \in P : i < j /\ \A k \in i..(j - 1) : t[k] \in Digit}

\* (?:\.\d+) : a literal "." and one or more digits.
DotGroupFrom(t, P) ==
    DigitsFrom(t, {i + 1 : i \in {k \in P : k <= Len(t) /\ t[k] = "."}})

\* (?: BU)? : nothing, or the three characters " BU".
OptBUFrom(t, P) ==
    P \cup {i + 3 : i \in {k \in P : k + 2 <= Len(t) /\ SubSeq(t, k, k + 2) = <<" ", "B", "U">>}}

\* $ : at the end of the text, or just before a newline that ends it.
AtEnd(t, P) ==
    \/ (Len(t) + 1) \in P
    \/ (t # <<>> /\ t[Len(t)] = "\n" /\ Len(t) \in P)

\* The pattern with {1,4} for {1,3}: five groups are let through.
VERSION_PATTERN_upto5(t) ==
    LET g1 == DigitsFrom(t, {1})
        g2 == DotGroupFrom(t, g1)
        g3 == DotGroupFrom(t, g2)
        g4 == DotGroupFrom(t, g3)
        g5 == DotGroupFrom(t, g4)
    IN  AtEnd(t, OptBUFrom(t, g2 \cup g3 \cup g4 \cup g5))

\* VERSION_PATTERN.match(t) for ^(\d+(?:\.\d+){1,3})(?: BU)?$
VERSION_PATTERN(t) ==
    LET g1 == DigitsFrom(t, {1})
        g2 == DotGroupFrom(t, g1)
        g3 == DotGroupFrom(t, g2)
        g4 == DotGroupFrom(t, g3)
    IN  AtEnd(t, OptBUFrom(t, g2 \cup g3 \cup g4))

PatchPrefix == <<"p", "a", "t", "c", "h", " ">>

strip_patch_prefix(t) ==
    IF startswith(lower(t), PatchPrefix) THEN strip(Drop(t, 6)) ELSE t

_extract_version(t) ==
    LET stripped == strip_patch_prefix(_clean_text(t))
    IN  IF VERSION_PATTERN(stripped) THEN stripped ELSE None

\* ------------------------------------------------------------------ document
\* A node of the parsed tree: its tag ("#text" for a string), the index of
\* its parent (0 for the document itself), its class attribute as a set of
\* names, and its characters when it is a string.
Node(tag, parent, class, string) ==
    [tag |-> tag, parent |-> parent, class |-> class, string |-> string]

\* j lies below n in the tree
RECURSIVE IsUnder(_, _, _)
IsUnder(doc, j, n) ==
    /\ j # 0
    /\ (doc[j].parent = n \/ IsUnder(doc, doc[j].parent, n))

\* a set of node indexes in document order
RECURSIVE InOrder(_)
InOrder(S) ==
    IF S = {} THEN <<>>
    ELSE LET m == CHOOSE x \in S : \A y \in S : x <= y
         IN  <<m>> \o InOrder(S \ {m})

\* Tag.find_all(tags): every descendant of n with one of the tags, in document order
find_all(doc, n, tags) ==
    InOrder({j \in 1..Len(doc) : IsUnder(doc, j, n) /\ doc[j].tag \in tags})

\* find_all without the class_ filter: every table qualifies
find_all_any_class(doc, n, tags, cls) == find_all(doc, n, tags)

\* Tag.find_all(tags, class_=cls): also requires cls among the node's classes
find_all_class(doc, n, tags, cls) ==
    InOrder({j \in 1..Len(doc) :
                IsUnder(doc, j, n) /\ doc[j].tag \in tags /\ cls \in doc[j].class})

RECURSIVE Join(_, _)
Join(ss, sep) ==
    IF ss = <<>> THEN <<>>
    ELSE IF Len(ss) = 1 THEN ss[1]
    ELSE ss[1] \o sep \o Join(Tail(ss), sep)

\* Tag.get_text(sep): the strings below n, in document order, joined by sep
get_text(doc, n, sep) ==
    LET strs == find_all(doc, n, {"#text"})
    IN  Join([i \in 1..Len(strs) |-> doc[strs[i]].string], sep)

\* ------------------------------------------------------------------ dates
\* datetime.date as <<year, month, day>>
DateMin == <<1, 1, 1>>

DateLess(a, b) ==
    \/ a[1] < b[1]
    \/ (a[1] = b[1] /\ a[2] < b[2])
    \/ (a[1] = b[1] /\ a[2] = b[2] /\ a[3] < b[3])

\* what dateparser.parse does with a text: raises, returns nothing, or returns a date
Raises == [kind |-> "raise", date |-> None]

ReturnsNone == [kind |-> "none", date |-> None]

Returns(d) == [kind |-> "date", date |-> d]

TextJan9 == <<"9", " ", "J", "a", "n", "u", "a", "r", "y", " ", "2", "0", "1", "8">>

TextIso == <<"2", "0", "1", "9", "-", "1", "1", "-", "2", "6">>

TextNotADate == <<"N", "o", "t", " ", "a", " ", "d", "a", "t", "e">>

\* the texts whose parse the tests do not fix
UnknownDateTexts == {TextNotADate}

\* dateparser.parse(t, fuzzy=True)
dateparser_parse(t) ==
    CASE t = TextJan9 -> Returns(<<2018, 1, 9>>)
      [] t = TextIso -> Returns(<<2019, 11, 26>>)
      [] t \in UnknownDateTexts -> dateutil[t]

Placeholders == {<<"-">>, <<"n", "/", "a">>, <<"n", "a">>, <<"u", "n", "k", "n", "o", "w", "n">>}

NoCall(ret) == [ret |-> ret, exc |-> "", parsed |-> <<>>]

\* _parse_date_maybe without its try/except: the parser's exception leaves the function
_parse_date_maybe_uncaught(t0) ==
    LET t == _clean_text(t0)
    IN  IF t = <<>> \/ lower(t) \in Placeholders THEN NoCall(None)
        ELSE LET parsed == dateparser_parse(t)
             IN  [ret |-> IF parsed.kind = "date" THEN parsed.date ELSE None,
                  exc |-> IF parsed.kind = "raise" THEN "ParserError" ELSE "",
                  parsed |-> <<t>>]

\* _parse_date_maybe: the value returned (ret), the exception that leaves the
\* function (exc, "" for none) and the texts handed to the parser (parsed)
_parse_date_maybe(t0) ==
    LET t == _clean_text(t0)
    IN  IF t = <<>> \/ lower(t) \in Placeholders THEN NoCall(None)
        ELSE LET parsed == dateparser_parse(t)
             IN  [ret |-> IF parsed.kind = "date" THEN parsed.date ELSE None,
                  exc |-> "",
                  parsed |-> <<t>>]

\* ------------------------------------------------------------------ records
PatchRow(patch_id, build, release_date_na) ==
    [patch_id |-> patch_id, build |-> build, release_date_na |-> release_date_na]

\* tr.find_all(["td", "th"])
row_cells(doc, tr) == find_all(doc, tr, {"td", "th"})

\* cells[k].get_text(" "), normalized
cell_text(doc, cell) == _clean_text(get_text(doc, cell, <<" ">>))

\* the header test dropped: no row is taken for a header
is_header_never(doc, cells) == FALSE

\* cells[0].name == "th"
is_header(doc, cells) == doc[cells[1]].tag = "th"

\* Column 1: the date, with what _parse_date_maybe did to get it
row_date(doc, cells) ==
    IF Len(cells) > 1 THEN _parse_date_maybe(cell_text(doc, cells[2])) ELSE NoCall(None)

\* the build taken whenever a third cell exists, "-" and "" included
row_build_unfiltered(doc, cells) ==
    IF Len(cells) > 2 THEN cell_text(doc, cells[3]) ELSE None

\* Column 2: the build
row_build(doc, cells) ==
    IF Len(cells) > 2
    THEN LET build_text == cell_text(doc, cells[3])
         IN  IF build_text # <<>> /\ build_text # <<"-">> THEN build_text ELSE None
    ELSE None

\* ------------------------------------------------------------------ inputs
SeqsUpTo(S, n) == UNION {[1..k -> S] : k \in 0..n}

CleanAlphabet == {" ", "\t", "\n", "a", "b"}

\* ------------------------------------------------------------------ write_csv
\* the printable ASCII characters in code-point order, from " " (32); the
\* double quote (34), the backslash (92) and the backtick (96) are spelled out and match no character
Ascii ==
    <<
      " ", "!", "QUOTE", "#", "$", "%", "&", "'", "(", ")", "*", "+", ",", "-", ".", "/",
      "0", "1", "2", "3", "4", "5", "6", "7", "8", "9", ":", ";", "<", "=", ">", "?",
      "@", "A", "B", "C", "D", "E", "F", "G", "H", "I", "J", "K", "L", "M", "N", "O",
      "P", "Q", "R", "S", "T", "U", "V", "W", "X", "Y", "Z", "[", "BACKSLASH", "]", "^", "_",
      "BACKTICK", "a", "b", "c", "d", "e", "f", "g", "h", "i", "j", "k", "l", "m", "n", "o",
      "p", "q", "r", "s", "t", "u", "v", "w", "x", "y", "z", "{", "|", "}", "~" >>

\* ord(c)
Ord(c) == 31 + (CHOOSE i \in 1..Len(Ascii) : Ascii[i] = c)

\* a < b for str: by code point, a proper prefix first
StrLess(a, b) ==
    \E k \in 1..(Len(b)) :
        /\ \A i \in 1..(k - 1) : i <= Len(a) /\ a[i] = b[i]
        /\ (k > Len(a) \/ (k <= Len(a) /\ Ord(a[k]) < Ord(b[k])))

\* the sort key of write_csv: (r.release_date_na or date.min, r.patch_id)
sort_key(r) ==
    [date |-> IF r.release_date_na # None THEN r.release_date_na ELSE DateMin,
     patch_id |-> r.patch_id]

\* tuple comparison of two sort keys
KeyLess(a, b) ==
    \/ DateLess(a.date, b.date)
    \/ (a.date = b.date /\ StrLess(a.patch_id, b.patch_id))

\* a sort that drops a record whose key is already present
insert_sorted_unique(s, r) ==
    IF \E i \in 1..Len(s) : sort_key(s[i]) = sort_key(r) THEN s
    ELSE LET n == Cardinality({i \in 1..Len(s) : ~KeyLess(sort_key(r), sort_key(s[i]))})
         IN  Take(s, n) \o <<r>> \o Drop(s, n)

\* sorted() is stable: r goes after every element whose key is not greater
insert_sorted(s, r) ==
    LET n == Cardinality({i \in 1..Len(s) : ~KeyLess(sort_key(r), sort_key(s[i]))})
    IN  Take(s, n) \o <<r>> \o Drop(s, n)

RECURSIVE sorted_into(_, _)
sorted_into(s, rs) ==
    IF rs = <<>> THEN s ELSE sorted_into(insert_sorted(s, Head(rs)), Tail(rs))

\* sorted(rows, key=...)
sorted(rs) == sorted_into(<<>>, rs)

DigitChars == <<"0", "1", "2", "3", "4", "5", "6", "7", "8", "9">>

\* n in decimal, zero-padded to width digits
RECURSIVE Dec(_, _)
Dec(n, width) ==
    IF width = 0 THEN <<>>
    ELSE Dec(n \div 10, width - 1) \o <<DigitChars[(n % 10) + 1]>>

\* date.isoformat(): YYYY-MM-DD
isoformat(d) == Dec(d[1], 4) \o <<"-">> \o Dec(d[2], 2) \o <<"-">> \o Dec(d[3], 2)

CsvHeader ==
    << <<"p", "a", "t", "c", "h", "_", "i", "d">>,
       <<"b", "u", "i", "l", "d">>,
       <<"r", "e", "l", "e", "a", "s", "e", "_", "d", "a", "t", "e", "_", "n", "a">> >>

\* the row written for a record
csv_row(r) ==
    << r.patch_id,
       IF r.build # None /\ r.build # <<>> THEN r.build ELSE <<>>,
       IF r.release_date_na # None THEN isoformat(r.release_date_na) ELSE <<>> >>

\* ------------------------------------------------------------------ documents served
TD(s) == [kind |-> "td", string |-> s, nested |-> <<>>]

TH(s) == [kind |-> "th", string |-> s, nested |-> <<>>]

\* a <td> holding a string and tables
TDWith(s, tbls) == [kind |-> "td", string |-> s, nested |-> tbls]

Table(class, rws) == [class |-> class, rows |-> rws]

RECURSIVE TablesNodes(_, _, _)
RECURSIVE RowsNodes(_, _, _)
RECURSIVE CellsNodes(_, _, _)

\* The nodes of a list of tables under parent, the first one getting index base + 1.
TablesNodes(tbls, parent, base) ==
    IF tbls = <<>> THEN <<>>
    ELSE LET me == base + 1
             first == <<Node("table", parent, Head(tbls).class, <<>>)>>
                        \o RowsNodes(Head(tbls).rows, me, me)
         IN  first \o TablesNodes(Tail(tbls), parent, base + Len(first))

RowsNodes(rws, parent, base) ==
    IF rws = <<>> THEN <<>>
    ELSE LET me == base + 1
             first == <<Node("tr", parent, {}, <<>>)>> \o CellsNodes(Head(rws), me, me)
         IN  first \o RowsNodes(Tail(rws), parent, base + Len(first))

CellsNodes(cells, parent, base) ==
    IF cells = <<>> THEN <<>>
    ELSE LET me == base + 1
             c == Head(cells)
             str == IF c.string = None THEN <<>> ELSE <<Node("#text", me, {}, c.string)>>
             first == <<Node(c.kind, parent, {}, <<>>)>> \o str
                        \o TablesNodes(c.nested, me, me + Len(str))
         IN  first \o CellsNodes(Tail(cells), parent, base + Len(first))

\* <div class="mw-parser-output"> around the tables
Document(tbls) ==
    <<Node("div", 0, {"mw-parser-output"}, <<>>)>> \o TablesNodes(tbls, 1, 1)

TextPatch413 == <<"P", "a", "t", "c", "h", " ", "4", ".", "1", ".", "3">>

TextBU == <<" ", "4", ".", "0", ".", "2", "\t", "B", "U", "\n">>

TextPatch10001 == <<"p", "a", "t", "c", "h", " ", " ", "1", "0", ".", "0", ".", "0", ".", "1">>

TextPatch17 == <<"P", "a", "t", "c", "h", " ", "1", "7">>

TextBugFixes == <<"B", "u", "g", " ", "F", "i", "x", "e", "s">>

TextBuild == <<"6", "1", "0", "2", "1">>

TextBuildPadded == <<"\n", " ", "6", "1", "0", "2", "1", " ">>

RowHeader == <<TH(TextBugFixes), TH(TextBugFixes), TH(TextBugFixes)>>

RowFull == <<TD(TextPatch413), TD(TextJan9), TD(TextBuildPadded), TD(TextBugFixes)>>

RowTwoCells == <<TD(TextPatch10001), TD(TextIso)>>

RowOneCell == <<TD(TextBU)>>

RowNotAVersion == <<TD(TextBugFixes), TD(TextJan9), TD(TextBuild), TD(TextNotADate)>>

RowNoCells == <<>>

RowPlaceholder == <<TD(TextBU), TD(<<"-">>), TD(<<"-">>)>>

RowBadDate == <<TD(TextPatch10001), TD(TextNotADate), TD(None), TD(TextBuild)>>

RowHeaderMarked == <<TH(TextPatch413), TD(TextJan9), TD(TextBuild)>>

RowHeaderSecond == <<TD(TextPatch413), TH(<<" ", "n", "/", "A", "\n">>), TH(<<" ", "\n">>)>>

\* a row whose fourth cell holds a table without the marker class
RowNesting ==
    <<TD(TextPatch17), TD(TextJan9), TD(TextBuild),
      TDWith(TextBugFixes, <<Table({}, <<RowTwoCells>>)>>)>>

\* a row whose fourth cell holds a table with the marker class
RowNestingMarker ==
    <<TD(TextPatch413), TD(TextJan9), TD(TextBuild),
      TDWith(TextBugFixes, <<Table({"wikitable"}, <<RowOneCell>>)>>)>>

RowPool ==
    { RowFull, RowTwoCells, RowOneCell, RowNotAVersion, RowNoCells, RowPlaceholder,
      RowBadDate, RowHeaderMarked, RowHeaderSecond, RowNesting }

TablePool ==
    { Table({"wikitable"}, <<RowHeader, RowFull>>),
      Table({"wikitable", "sortable"}, <<RowTwoCells>>),
      Table({}, <<RowFull>>),
      Table({"navbox"}, <<RowOneCell>>),
      Table({"wikitable"}, <<RowNotAVersion>>),
      Table({"wikitable"}, <<>>),
      Table({"wikitable"}, <<RowNestingMarker>>) }

\* one marker table of up to MaxRows rows, or up to MaxTables tables of the pool
Documents ==
    {Document(<<Table({"wikitable"}, rws)>>) : rws \in SeqsUpTo(RowPool, MaxRows)}
    \cup {Document(tbls) : tbls \in SeqsUpTo(TablePool, MaxTables)}

ParserBehaviours == [UnknownDateTexts -> {Raises, ReturnsNone, Returns(DateMin)}]

\* the document holds a text whose parse the tests do not fix
HoldsUnknownDateText(doc) ==
    \E j \in 1..Len(doc) : _clean_text(doc[j].string) \in UnknownDateTexts

\* ------------------------------------------------------------------ records given to write_csv
RecordPool ==
    {PatchRow(id, b, d) :
        id \in {<<"1", "0", ".", "0", ".", "0", ".", "1">>, <<"4", ".", "1", ".", "3">>},
        b \in {None, TextBuild},
        d \in {None, DateMin, <<2017, 11, 21>>, <<2018, 1, 9>>}}

\* ------------------------------------------------------------------ initial values
\* no document is served and the parser is not consulted
NothingServed ==
    /\ page = <<>>
    /\ dateutil = [t \in UnknownDateTexts |-> Raises]

\* no helper is being applied
NoHelper ==
    /\ text = <<>>
    /\ result = None
    /\ calls = 0

\* nothing of main, extract_all_rows or write_csv has run
NothingRun ==
    /\ html = ""
    /\ soup = <<>>
    /\ tables = <<>>
    /\ ti = 0
    /\ all_rows = <<>>
    /\ trs = <<>>
    /\ ri = 0
    /\ table_rows = <<>>
    /\ rows = <<>>
    /\ sorted_rows = <<>>
    /\ wi = 0
    /\ file = <<>>
    /\ opens = 0
    /\ dirs = FALSE
    /\ printed = FALSE
    /\ error = ""
    /\ rowLog = <<>>
    /\ parserCalls = <<>>

\* ------------------------------------------------------------------ main
Init ==
    /\ pc = "fetch"
    /\ entry = "main"
    /\ page \in Documents
    /\ dateutil \in IF HoldsUnknownDateText(page)
                    THEN ParserBehaviours
                    ELSE {[t \in UnknownDateTexts |-> Raises]}
    /\ NoHelper
    /\ NothingRun

\* fetch_portal_html returns the page's HTML
FetchOk ==
    /\ pc = "fetch"
    /\ html' = "html"
    /\ pc' = "parse"
    /\ UNCHANGED <<helperVars, envVars, tableVars, rowVars, writeVars,
                   soup, rows, dirs, printed, error>>

\* resp.raise_for_status() raises
FetchHttpError ==
    /\ pc = "fetch"
    /\ error' = "HTTPError"
    /\ pc' = "raised"
    /\ UNCHANGED <<helperVars, envVars, tableVars, rowVars, writeVars,
                   html, soup, rows, dirs, printed>>

\* the API answers with an "error" member
FetchApiError ==
    /\ pc = "fetch"
    /\ error' = "RuntimeError: MediaWiki API error"
    /\ pc' = "raised"
    /\ UNCHANGED <<helperVars, envVars, tableVars, rowVars, writeVars,
                   html, soup, rows, dirs, printed>>

\* soup = BeautifulSoup(html, "html.parser")
ParseHtml ==
    /\ pc = "parse"
    /\ soup' = page
    /\ pc' = "extract_all_rows"
    /\ UNCHANGED <<helperVars, envVars, tableVars, rowVars, writeVars,
                   html, rows, dirs, printed, error>>

\* ------------------------------------------------------------------ extract_all_rows
\* all_rows = []; the tables are found once, before the loop
FindTables ==
    /\ pc = "extract_all_rows"
    /\ tables' = find_all_class(soup, 0, {"table"}, "wikitable")
    /\ all_rows' = <<>>
    /\ ti' = 1
    /\ pc' = "table"
    /\ UNCHANGED <<helperVars, envVars, rowVars, writeVars, mainVars>>

\* the next table is handed to extract_rows_from_table
EnterTable ==
    /\ pc = "table"
    /\ ti <= Len(tables)
    /\ trs' = find_all(soup, tables[ti], {"tr"})
    /\ ri' = 1
    /\ table_rows' = <<>>
    /\ pc' = "row"
    /\ UNCHANGED <<helperVars, envVars, tableVars, writeVars, mainVars,
                   rowLog, parserCalls>>

\* return all_rows, which main binds to rows
ReturnAllRows ==
    /\ pc = "table"
    /\ ti > Len(tables)
    /\ rows' = all_rows
    /\ pc' = "check_rows"
    /\ UNCHANGED <<helperVars, envVars, tableVars, rowVars, writeVars,
                   html, soup, dirs, printed, error>>

\* ------------------------------------------------------------------ extract_rows_from_table
AtRow == pc = "row" /\ ri <= Len(trs)

Logged(recs) == Append(rowLog, [table |-> tables[ti], tr |-> trs[ri], record |-> recs])

\* continue: the row gives nothing
SkipRow ==
    /\ ri' = ri + 1
    /\ rowLog' = Logged(<<>>)
    /\ UNCHANGED <<pc, helperVars, envVars, tableVars, writeVars, mainVars,
                   trs, table_rows, parserCalls>>

\* if not cells: continue
SkipNoCells ==
    /\ AtRow
    /\ row_cells(soup, trs[ri]) = <<>>
    /\ SkipRow

\* if cells[0].name == "th": continue
SkipHeaderRow ==
    /\ AtRow
    /\ row_cells(soup, trs[ri]) # <<>>
    /\ is_header(soup, row_cells(soup, trs[ri]))
    /\ SkipRow

\* not version
not_version(version) == version = None \/ version = <<>>

\* version = _extract_version(patch_text) for the row's first cell
row_version(doc, cells) == _extract_version(cell_text(doc, cells[1]))

\* if not version: continue
SkipNoVersion ==
    /\ AtRow
    /\ row_cells(soup, trs[ri]) # <<>>
    /\ ~is_header(soup, row_cells(soup, trs[ri]))
    /\ not_version(row_version(soup, row_cells(soup, trs[ri])))
    /\ SkipRow

\* rows.append(PatchRow(...)); an exception of the date parse would end the run
AppendRow ==
    /\ AtRow
    /\ row_cells(soup, trs[ri]) # <<>>
    /\ ~is_header(soup, row_cells(soup, trs[ri]))
    /\ ~not_version(row_version(soup, row_cells(soup, trs[ri])))
    /\ LET cells == row_cells(soup, trs[ri])
           release_date == row_date(soup, cells)
           rec == PatchRow(row_version(soup, cells), row_build(soup, cells), release_date.ret)
       IN  /\ parserCalls' = parserCalls \o release_date.parsed
           /\ IF release_date.exc # ""
              THEN /\ error' = release_date.exc
                   /\ pc' = "raised"
                   /\ UNCHANGED <<ri, table_rows, rowLog>>
              ELSE /\ table_rows' = Append(table_rows, rec)
                   /\ rowLog' = Logged(<<rec>>)
                   /\ ri' = ri + 1
                   /\ UNCHANGED <<pc, error>>
    /\ UNCHANGED <<helperVars, envVars, tableVars, writeVars,
                   html, soup, rows, dirs, printed, trs>>

\* all_rows.extend(new)
extend(all, new) == all \o new

\* return rows; extract_all_rows extends all_rows and goes to the next table
ReturnTableRows ==
    /\ pc = "row"
    /\ ri > Len(trs)
    /\ all_rows' = extend(all_rows, table_rows)
    /\ ti' = ti + 1
    /\ pc' = "table"
    /\ UNCHANGED <<helperVars, envVars, rowVars, writeVars, mainVars, tables>>

\* ------------------------------------------------------------------ main, after the extraction
\* the test of main taken as "no table was found"
no_rows_if_no_table(rs) == tables = <<>>

\* not rows
no_rows(rs) == rs = <<>>

\* raise RuntimeError("Extracted 0 patch rows. ...")
RaiseNoRows ==
    /\ pc = "check_rows"
    /\ no_rows(rows)
    /\ error' = "RuntimeError: Extracted 0 patch rows"
    /\ pc' = "raised"
    /\ UNCHANGED <<helperVars, envVars, tableVars, rowVars, writeVars,
                   html, soup, rows, dirs, printed>>

\* os.makedirs(out_dir, exist_ok=True)
MakeDirs ==
    /\ pc = "check_rows"
    /\ ~no_rows(rows)
    /\ dirs' = TRUE
    /\ pc' = "write_csv"
    /\ UNCHANGED <<helperVars, envVars, tableVars, rowVars, writeVars,
                   html, soup, rows, printed, error>>

\* print(f"Wrote {len(rows)} rows to {out_path}")
PrintSummary ==
    /\ pc = "print"
    /\ printed' = TRUE
    /\ pc' = "done"
    /\ UNCHANGED <<helperVars, envVars, tableVars, rowVars, writeVars,
                   html, soup, rows, dirs, error>>

\* ------------------------------------------------------------------ write_csv steps
\* write_csv called on its own, as the tests do
InitCsv ==
    /\ pc = "write_csv"
    /\ entry = "write_csv"
    /\ NothingServed
    /\ NoHelper
    /\ html = ""
    /\ soup = <<>>
    /\ tables = <<>>
    /\ ti = 0
    /\ all_rows = <<>>
    /\ trs = <<>>
    /\ ri = 0
    /\ table_rows = <<>>
    /\ rows \in SeqsUpTo(RecordPool, MaxRecords)
    /\ sorted_rows = <<>>
    /\ wi = 0
    /\ file = <<>>
    /\ opens = 0
    /\ dirs = FALSE
    /\ printed = FALSE
    /\ error = ""
    /\ rowLog = <<>>
    /\ parserCalls = <<>>

\* sorted_rows = sorted(rows, key=...)
SortRows ==
    /\ pc = "write_csv"
    /\ sorted_rows' = sorted(rows)
    /\ pc' = "open"
    /\ UNCHANGED <<helperVars, envVars, tableVars, rowVars, mainVars, wi, file, opens>>

\* open(path, "w", ...): the file is created empty
OpenFile ==
    /\ pc = "open"
    /\ file' = <<>>
    /\ opens' = opens + 1
    /\ pc' = "header"
    /\ UNCHANGED <<helperVars, envVars, tableVars, rowVars, mainVars, sorted_rows, wi>>

\* writer.writerow(["patch_id", "build", "release_date_na"])
WriteHeader ==
    /\ pc = "header"
    /\ file' = Append(file, CsvHeader)
    /\ wi' = 1
    /\ pc' = "write_row"
    /\ UNCHANGED <<helperVars, envVars, tableVars, rowVars, mainVars, sorted_rows, opens>>

\* writer.writerow([...]) for the next row of sorted_rows
WriteRow ==
    /\ pc = "write_row"
    /\ wi <= Len(sorted_rows)
    /\ file' = Append(file, csv_row(sorted_rows[wi]))
    /\ wi' = wi + 1
    /\ UNCHANGED <<pc, helperVars, envVars, tableVars, rowVars, mainVars, sorted_rows, opens>>

\* the with block ends and write_csv returns
CloseFile ==
    /\ pc = "write_row"
    /\ wi > Len(sorted_rows)
    /\ pc' = IF entry = "main" THEN "print" ELSE "done"
    /\ UNCHANGED <<helperVars, envVars, tableVars, rowVars, writeVars, mainVars>>

WriteCsv == SortRows \/ OpenFile \/ WriteHeader \/ WriteRow \/ CloseFile

SpecCsv == InitCsv /\ [][WriteCsv]_vars

Next ==
    \/ FetchOk \/ FetchHttpError \/ FetchApiError \/ ParseHtml
    \/ FindTables \/ EnterTable \/ ReturnAllRows
    \/ SkipNoCells \/ SkipHeaderRow \/ SkipNoVersion \/ AppendRow \/ ReturnTableRows
    \/ RaiseNoRows \/ MakeDirs \/ PrintSummary
    \/ WriteCsv

Spec == Init /\ [][Next]_vars

\* ------------------------------------------------------------------ _clean_text alone
InitClean ==
    /\ pc = "clean"
    /\ entry = "_clean_text"
    /\ text \in SeqsUpTo(CleanAlphabet, MaxTextLen)
    /\ result = None
    /\ calls = 0
    /\ NothingServed
    /\ NothingRun

\* _clean_text applied to the input, then to its own result.
CleanText ==
    /\ pc = "clean"
    /\ calls < 2
    /\ result' = _clean_text(IF calls = 0 THEN text ELSE result)
    /\ calls' = calls + 1
    /\ UNCHANGED <<pc, text, envVars, tableVars, rowVars, writeVars, mainVars>>

NextClean == CleanText

SpecClean == InitClean /\ [][NextClean]_vars

\* ------------------------------------------------------------------ C10
\* The words of a text: its maximal runs of non-whitespace characters.
RECURSIVE Words(_)
Words(t) ==
    IF t = <<>> THEN <<>>
    ELSE IF IsSpace(Head(t)) THEN Words(Tail(t))
    ELSE LET n == CHOOSE k \in 1..Len(t) :
                    /\ \A i \in 1..k : ~IsSpace(t[i])
                    /\ (k = Len(t) \/ IsSpace(t[k + 1]))
         IN  <<Take(t, n)>> \o Words(Drop(t, n))

RECURSIVE JoinWords(_)
JoinWords(ws) ==
    IF ws = <<>> THEN <<>>
    ELSE IF Len(ws) = 1 THEN ws[1]
    ELSE ws[1] \o <<" ">> \o JoinWords(Tail(ws))

Normalized(t) == JoinWords(Words(t))

IsClean(t) ==
    /\ \A i \in 1..Len(t) : t[i] \in Whitespace => t[i] = " "
    /\ \A i \in 1..(Len(t) - 1) : ~(t[i] = " " /\ t[i + 1] = " ")
    /\ t # <<>> => (t[1] # " " /\ t[Len(t)] # " ")

\* C10: for every input, _clean_text returns text with no tab or newline, no
\* two consecutive spaces and no leading or trailing space, in which the
\* words of the input are kept in order and separated by exactly one space;
\* the empty text maps to the empty text, and a second application returns
\* what the first one returned.
C10_CleanTextNormalizes ==
    (pc = "clean" /\ calls >= 1) =>
        /\ IsClean(result)
        /\ result = Normalized(text)
        /\ (text = <<>> => result = <<>>)

C10_Witness ==
    /\ pc = "clean"
    /\ calls = 2
    /\ text = <<" ", "a", "\t", "\n">>
    /\ result = <<"a">>

\* ------------------------------------------------------------------ _extract_version alone
RECURSIVE Concat(_)
Concat(ss) == IF ss = <<>> THEN <<>> ELSE Head(ss) \o Concat(Tail(ss))

VersionPrefixes ==
    { <<>>,
      <<"P", "a", "t", "c", "h", " ">>,
      <<"p", "a", "t", "c", "h", " ">>,
      <<"P", "A", "T", "C", "H", " ">>,
      <<"P", "a", "t", "c", "h">>,
      <<" ", "P", "a", "t", "c", "h", " ", "\n", " ">>,
      <<"P", "a", "t", "c", "h", " ", "P", "a", "t", "c", "h", " ">> }

GroupTexts == <<<<"1", "0">>, <<"0">>, <<"2">>, <<"1">>, <<"7">>, <<"3">>, <<"9">>>>

GroupSeparators == { <<".">>, <<",">>, <<" ", ".">>, <<".", ".">> }

VersionSuffixes ==
    { <<>>,
      <<" ", "B", "U">>,
      <<"B", "U">>,
      <<" ", "b", "u">>,
      <<" ", "\t", "B", "U", " ">>,
      <<" ", "B">>,
      <<" ", "B", "U", " ", "B", "U">>,
      <<" ", "B", "U", "x">>,
      <<".">>,
      <<"\n">> }

\* g digit groups joined by sep
RECURSIVE JoinGroups(_, _)
JoinGroups(g, sep) ==
    IF g = 0 THEN <<>>
    ELSE IF g = 1 THEN GroupTexts[1]
    ELSE JoinGroups(g - 1, sep) \o sep \o GroupTexts[g]

VersionAlphabet == {"4", ".", " ", "B", "U", "x"}

VersionInputs ==
    {p \o JoinGroups(g, sep) \o suf :
        p \in VersionPrefixes, g \in 0..MaxGroups,
        sep \in GroupSeparators, suf \in VersionSuffixes}
    \cup SeqsUpTo(VersionAlphabet, MaxTextLen)

InitVersion ==
    /\ pc = "version"
    /\ entry = "_extract_version"
    /\ text \in VersionInputs
    /\ result = None
    /\ calls = 0
    /\ NothingServed
    /\ NothingRun

ExtractVersion ==
    /\ pc = "version"
    /\ calls = 0
    /\ result' = _extract_version(text)
    /\ calls' = 1
    /\ UNCHANGED <<pc, text, envVars, tableVars, rowVars, writeVars, mainVars>>

NextVersion == ExtractVersion

SpecVersion == InitVersion /\ [][NextVersion]_vars

\* ------------------------------------------------------------------ C2
\* The parts of t between the occurrences of the character c.
RECURSIVE SplitOn(_, _)
SplitOn(t, c) ==
    IF \A i \in 1..Len(t) : t[i] # c THEN <<t>>
    ELSE LET n == CHOOSE k \in 1..Len(t) : t[k] = c /\ \A i \in 1..(k - 1) : t[i] # c
         IN  <<Take(t, n - 1)>> \o SplitOn(Drop(t, n), c)

BUSuffix == <<" ", "B", "U">>

EndsWithBU(t) == Len(t) >= 3 /\ SubSeq(t, Len(t) - 2, Len(t)) = BUSuffix

\* 2 to 4 groups of digits separated by ".", optionally followed by " BU"
IsVersionText(t) ==
    LET core == IF EndsWithBU(t) THEN Take(t, Len(t) - 3) ELSE t
        groups == SplitOn(core, ".")
    IN  /\ Len(groups) \in 2..4
        /\ \A i \in 1..Len(groups) :
              groups[i] # <<>> /\ \A k \in 1..Len(groups[i]) : groups[i][k] \in Digit

IsPatchWord(t) ==
    /\ Len(t) >= 6
    /\ t[1] \in {"p", "P"} /\ t[2] \in {"a", "A"} /\ t[3] \in {"t", "T"}
    /\ t[4] \in {"c", "C"} /\ t[5] \in {"h", "H"} /\ t[6] = " "

\* the normalized text without one leading "Patch " in any letter case
AfterPatchPrefix(t) ==
    LET n == Normalized(t) IN IF IsPatchWord(n) THEN Drop(n, 6) ELSE n

\* C2: _extract_version returns the normalized text without one leading
\* "Patch " (any case) exactly when that whole text is 2 to 4 groups of
\* digits separated by "." optionally followed by " BU", and no match for
\* every other text.
C2_ExtractVersionGrammar ==
    (pc = "version" /\ calls = 1) =>
        result = IF IsVersionText(AfterPatchPrefix(text))
                 THEN AfterPatchPrefix(text) ELSE None

C2_Witness ==
    /\ pc = "version"
    /\ calls = 1
    /\ text = <<"P", "A", "T", "C", "H", " ", "1", "0", ".", "0", ".", "2", ".", "1", " ", "\t", "B", "U", " ">>
    /\ result = <<"1", "0", ".", "0", ".", "2", ".", "1", " ", "B", "U">>

\* ------------------------------------------------------------------ what the claims speak of
\* the row's cells, as extract_rows_from_table enumerates them
CellsOf(tr) == row_cells(soup, tr)

\* the normalized text of a cell
CellNormalized(cell) == Normalized(get_text(soup, cell, <<" ">>))

\* the row has a cell, its first cell is no header cell and holds a version
Qualifies(tr) ==
    /\ CellsOf(tr) # <<>>
    /\ soup[CellsOf(tr)[1]].tag # "th"
    /\ IsVersionText(AfterPatchPrefix(CellNormalized(CellsOf(tr)[1])))

\* the tables carrying the marker class, in document order
MarkerTables ==
    InOrder({j \in 1..Len(soup) : soup[j].tag = "table" /\ "wikitable" \in soup[j].class})

\* the rows below a table, in document order
RowsOf(t) == InOrder({j \in 1..Len(soup) : soup[j].tag = "tr" /\ IsUnder(soup, j, t)})

\* the Records logged so far, in the order they were produced
RECURSIVE LoggedRecords(_)
LoggedRecords(log) ==
    IF log = <<>> THEN <<>> ELSE Head(log).record \o LoggedRecords(Tail(log))

\* every (table, row) pair the extraction has to look at, in order
RECURSIVE VisitsOf(_)
VisitsOf(ts) ==
    IF ts = <<>> THEN <<>>
    ELSE [i \in 1..Len(RowsOf(Head(ts))) |-> <<Head(ts), RowsOf(Head(ts))[i]>>]
            \o VisitsOf(Tail(ts))

Extracted == pc \in {"check_rows", "write_csv", "open", "header", "write_row", "print", "done"}

ZeroRowsError == "RuntimeError: Extracted 0 patch rows"

\* ------------------------------------------------------------------ C1
\* C1: a row gives a Record exactly when it has a cell, its first cell is not
\* a <th> and the normalized text of that cell is a version; every other row
\* gives nothing and raises nothing; every Record has a non-empty patch_id
\* that matches the version grammar; and every row of every marker table is
\* looked at.
C1_RecordIffVersionRow ==
    /\ \A i \in 1..Len(rowLog) :
          /\ (rowLog[i].record # <<>>) <=> Qualifies(rowLog[i].tr)
          /\ Len(rowLog[i].record) <= 1
          /\ rowLog[i].record # <<>> =>
                /\ rowLog[i].record[1].patch_id # <<>>
                /\ IsVersionText(rowLog[i].record[1].patch_id)
    /\ pc = "row" => LoggedRecords(rowLog) = all_rows \o table_rows
    /\ pc = "table" => LoggedRecords(rowLog) = all_rows
    /\ Extracted =>
          /\ [i \in 1..Len(rowLog) |-> <<rowLog[i].table, rowLog[i].tr>>] = VisitsOf(MarkerTables)
          /\ LoggedRecords(rowLog) = rows
    /\ error \in {"", "HTTPError", "RuntimeError: MediaWiki API error", ZeroRowsError}

\* a header-marked row holding a version and a data row holding none were
\* dropped, the second with a date and a build cell, next to a row that gave
\* a Record
C1_Witness ==
    /\ Extracted
    /\ \E i, j \in 1..Len(rowLog) :
          /\ rowLog[i].record # <<>>
          /\ rowLog[j].record = <<>>
          /\ Len(CellsOf(rowLog[j].tr)) >= 3
          /\ soup[CellsOf(rowLog[j].tr)[1]].tag = "td"
          /\ CellNormalized(CellsOf(rowLog[j].tr)[1]) = TextBugFixes
          /\ CellNormalized(CellsOf(rowLog[j].tr)[2]) = TextJan9
          /\ CellNormalized(CellsOf(rowLog[j].tr)[3]) = TextBuild

\* ------------------------------------------------------------------ C4
\* the build the claim gives a row
ClaimedBuild(cells) ==
    IF Len(cells) < 3 THEN None
    ELSE IF CellNormalized(cells[3]) \in {<<>>, <<"-">>} THEN None
    ELSE CellNormalized(cells[3])

\* the release date the claim gives a row
ClaimedDate(cells) ==
    IF Len(cells) < 2 THEN None
    ELSE _parse_date_maybe(CellNormalized(cells[2])).ret

\* C4: the Record of a row has the Date Interpreter's result on the second
\* cell as release date (absent without a second cell) and the normalized
\* third cell as build (absent without a third cell, or when that is empty
\* or "-"); it is decided by the first three cells alone.
C4_FieldsFromCells ==
    \A i \in 1..Len(rowLog) :
        rowLog[i].record # <<>> =>
            rowLog[i].record[1] =
                PatchRow(AfterPatchPrefix(CellNormalized(CellsOf(rowLog[i].tr)[1])),
                         ClaimedBuild(CellsOf(rowLog[i].tr)),
                         ClaimedDate(CellsOf(rowLog[i].tr)))

\* a row of four cells gave a Record with a date and a build, and a row of
\* fewer than three cells gave one without a build
C4_Witness ==
    \E i, j \in 1..Len(rowLog) :
        /\ rowLog[i].record # <<>>
        /\ Len(CellsOf(rowLog[i].tr)) >= 4
        /\ rowLog[i].record[1].build = TextBuild
        /\ rowLog[i].record[1].release_date_na = <<2018, 1, 9>>
        /\ rowLog[j].record # <<>>
        /\ Len(CellsOf(rowLog[j].tr)) = 2
        /\ rowLog[j].record[1].build = None
        /\ rowLog[j].record[1].release_date_na = <<2019, 11, 26>>

\* ------------------------------------------------------------------ C5
\* the Row Extractor's result for one row
RowResult(tr) ==
    IF Qualifies(tr)
    THEN <<PatchRow(row_version(soup, CellsOf(tr)), row_build(soup, CellsOf(tr)),
                    row_date(soup, CellsOf(tr)).ret)>>
    ELSE <<>>

\* the Row Extractor's result for a table: its rows' results in row order
TableResult(t) == Concat([i \in 1..Len(RowsOf(t)) |-> RowResult(RowsOf(t)[i])])

\* the results of the first n marker tables, in document order
MarkerResults(n) == Concat([i \in 1..n |-> TableResult(MarkerTables[i])])

Ended == pc \in {"raised", "done"}

\* C7: a run on a parsed document without marker tables, or without any
\* Record, ends in the zero-rows error with no directory made and no file
\* opened; a run with a Record never raises that error, makes the directory,
\* opens the file once and writes every row.
C7_ZeroRowsIsAnError ==
    /\ (Ended /\ soup # <<>>) =>
          IF MarkerTables = <<>> \/ LoggedRecords(rowLog) = <<>>
          THEN /\ pc = "raised"
               /\ error = ZeroRowsError
               /\ ~dirs /\ opens = 0 /\ file = <<>> /\ ~printed
          ELSE /\ pc = "done"
               /\ error = ""
               /\ dirs /\ opens = 1 /\ printed
               /\ Len(file) = 1 + Len(LoggedRecords(rowLog))
    /\ error = ZeroRowsError =>
          (LoggedRecords(rowLog) = <<>> /\ ~dirs /\ opens = 0 /\ pc = "raised")
    /\ (dirs \/ opens > 0) => (LoggedRecords(rowLog) # <<>> /\ error = "")
    /\ opens <= 1
    /\ pc \in {"write_csv", "open", "header", "write_row", "print"} =>
          (LoggedRecords(rowLog) # <<>> /\ dirs)

\* marker tables were found, none of their rows gave a Record, and the run
\* ended in the error
C7_Witness ==
    /\ pc = "raised"
    /\ error = ZeroRowsError
    /\ MarkerTables # <<>>
    /\ Len(rowLog) >= 1
    /\ ~dirs
    /\ opens = 0

\* ------------------------------------------------------------------ C8
\* equal to one of "-", "n/a", "na", "unknown" whatever the letter case
IsPlaceholderText(t) ==
    \E p \in {<<"-">>, <<"n", "/", "a">>, <<"n", "a">>, <<"u", "n", "k", "n", "o", "w", "n">>} :
        /\ Len(t) = Len(p)
        /\ \A i \in 1..Len(p) :
              \/ t[i] = p[i]
              \/ \E k \in 1..26 : LowerLetters[k] = p[i] /\ UpperLetters[k] = t[i]

\* C8: no exception of the date parse ends a run; the parser is never handed
\* an empty or placeholder text; a Record whose date cell is empty, a
\* placeholder, or a text on which the parser raises or returns nothing, is
\* produced all the same, without a release date.
C8_DateFailuresAbsorbed ==
    /\ error # "ParserError"
    /\ \A k \in 1..Len(parserCalls) :
          parserCalls[k] # <<>> /\ ~IsPlaceholderText(parserCalls[k])
    /\ \A i \in 1..Len(rowLog) :
          LET cells == CellsOf(rowLog[i].tr)
              t == CellNormalized(cells[2])
          IN  (Qualifies(rowLog[i].tr) /\ Len(cells) >= 2) =>
                 /\ rowLog[i].record # <<>>
                 /\ (t = <<>> \/ IsPlaceholderText(t)) =>
                       /\ rowLog[i].record[1].release_date_na = None
                       /\ \A k \in 1..Len(parserCalls) : parserCalls[k] # t
                 /\ (t # <<>> /\ ~IsPlaceholderText(t)) =>
                       /\ \E k \in 1..Len(parserCalls) : parserCalls[k] = t
                       /\ dateparser_parse(t).kind \in {"raise", "none"} =>
                             rowLog[i].record[1].release_date_na = None
    /\ (pc = "row" /\ ri > Len(trs)) =>
          \A k \in 1..Len(trs) : rowLog[Len(rowLog) - Len(trs) + k].tr = trs[k]

\* the parser raised on a row's date cell and the row gave its Record
\* without a date; another row's placeholder date never reached the parser
C8_Witness ==
    /\ dateutil[TextNotADate] = Raises
    /\ parserCalls = <<TextNotADate>>
    /\ \E i, j \in 1..Len(rowLog) :
          /\ rowLog[i].record # <<>>
          /\ Len(CellsOf(rowLog[i].tr)) >= 2
          /\ CellNormalized(CellsOf(rowLog[i].tr)[2]) = TextNotADate
          /\ rowLog[i].record[1].release_date_na = None
          /\ rowLog[j].record # <<>>
          /\ Len(CellsOf(rowLog[j].tr)) >= 2
          /\ CellNormalized(CellsOf(rowLog[j].tr)[2]) = <<"-">>
          /\ rowLog[j].record[1].release_date_na = None

\* ------------------------------------------------------------------ write_csv claims
Perms(n) == {f \in [1..n -> 1..n] : \A i, j \in 1..n : f[i] = f[j] => i = j}

Permuted(rs, f) == [i \in 1..Len(rs) |-> rs[f[i]]]

\* everything write_csv writes for rs
write_csv_output(rs) ==
    <<CsvHeader>> \o [i \in 1..Len(rs) |-> csv_row(sorted(rs)[i])]

\* a <= b for str
StrLeq(a, b) == a = b \/ StrLess(a, b)

\* ------------------------------------------------------------------ C3
\* C3 as stated: in the written order, no dated record comes before a record
\* without a date, dated records are in ascending date order, and records
\* with the same date, or both without one, are in ascending patch_id order
\* by plain text comparison.
C3_AbsentDatesFirst ==
    pc \in {"open", "header", "write_row", "print", "done"} =>
        /\ \E f \in Perms(Len(rows)) : sorted_rows = Permuted(rows, f)
        /\ \A i, j \in 1..Len(sorted_rows) :
              i < j =>
                 LET a == sorted_rows[i]
                     b == sorted_rows[j]
                 IN  /\ ~(a.release_date_na # None /\ b.release_date_na = None)
                     /\ (a.release_date_na # None /\ b.release_date_na # None) =>
                           ~DateLess(b.release_date_na, a.release_date_na)
                     /\ a.release_date_na = b.release_date_na =>
                           StrLeq(a.patch_id, b.patch_id)

\* ------------------------------------------------------------------ C6
\* the number a text of digits spells
RECURSIVE NumberOf(_)
NumberOf(t) ==
    IF t = <<>> THEN 0
    ELSE 10 * NumberOf(Take(t, Len(t) - 1))
            + (CHOOSE n \in 0..9 : DigitChars[n + 1] = t[Len(t)])

\* t is d in ISO year-month-day form
IsIsoOf(t, d) ==
    /\ Len(t) = 10
    /\ t[5] = "-" /\ t[8] = "-"
    /\ \A i \in {1, 2, 3, 4, 6, 7, 9, 10} : t[i] \in Digit
    /\ NumberOf(SubSeq(t, 1, 4)) = d[1]
    /\ NumberOf(SubSeq(t, 6, 7)) = d[2]
    /\ NumberOf(SubSeq(t, 9, 10)) = d[3]

\* line is the row the claim gives record r
IsRowOf(line, r) ==
    /\ Len(line) = 3
    /\ line[1] = r.patch_id
    /\ line[2] = IF r.build = None THEN <<>> ELSE r.build
    /\ IF r.release_date_na = None THEN line[3] = <<>>
       ELSE IsIsoOf(line[3], r.release_date_na)

HeaderNames ==
    << <<"p", "a", "t", "c", "h", "_", "i", "d">>,
       <<"b", "u", "i", "l", "d">>,
       <<"r", "e", "l", "e", "a", "s", "e", "_", "d", "a", "t", "e", "_", "n", "a">> >>

\* C6: when write_csv returns, the file, opened once, holds the header row
\* and then exactly one row per input Record: each Record's row occurs as
\* often as the Record does, with patch_id as it is, build or empty text,
\* and the date in ISO form or empty text.
C6_HeaderAndOneRowPerRecord ==
    (pc = "done" /\ entry = "write_csv") =>
        /\ opens = 1
        /\ Len(file) = 1 + Len(rows)
        /\ file[1] = HeaderNames
        /\ \E f \in Perms(Len(rows)) :
              \A i \in 1..Len(rows) : IsRowOf(file[i + 1], rows[f[i]])

\* the same Record given twice is written twice, and a Record without build
\* and date is written with two empty fields
C6_Witness ==
    /\ pc = "done"
    /\ entry = "write_csv"
    /\ Len(rows) = 3
    /\ rows[1] = rows[3]
    /\ rows[1].release_date_na = <<2018, 1, 9>>
    /\ rows[2].build = None
    /\ rows[2].release_date_na = None
    /\ \E i \in 2..4 : file[i][2] = <<>> /\ file[i][3] = <<>>

\* ------------------------------------------------------------------ C9
\* C9 as stated: whatever the order in which the same Records are given,
\* write_csv writes the same rows in the same order.
C9_OrderOfInputIrrelevant ==
    (pc = "done" /\ entry = "write_csv") =>
        \A f \in Perms(Len(rows)) : write_csv_output(Permuted(rows, f)) = file

\* ------------------------------------------------------------------ C11
\* the <tr> elements of the document
TrNodes == {j \in 1..Len(soup) : soup[j].tag = "tr"}

\* how many Records the extraction produced from the <tr> j
RecordsFrom(j) ==
    Cardinality({i \in 1..Len(rowLog) : rowLog[i].tr = j /\ rowLog[i].record # <<>>})

\* the rows inside a marker table whose first cell is no header cell,
\* each row counted once
NonHeaderMarkerRows ==
    {j \in TrNodes :
        /\ \E k \in 1..Len(MarkerTables) : IsUnder(soup, j, MarkerTables[k])
        /\ ~(CellsOf(j) # <<>> /\ soup[CellsOf(j)[1]].tag = "th")}

\* C11 as stated: when extract_all_rows has returned, no <tr> of the
\* document has given more than one Record, tables nested in cells
\* included, and there are no more Records than non-header rows of the
\* marker tables.
C11_RowGivesAtMostOneRecord ==
    (Extracted /\ soup # <<>>) =>
        /\ \A j \in TrNodes : RecordsFrom(j) <= 1
        /\ Len(rows) <= Cardinality(NonHeaderMarkerRows)

====
